---- MODULE Spec2Model ----
(***************************************************************************)
(* Employee tracker: the mobile LocationService (geofence transition       *)
(* detection, attendance submission, failed-request outbox kept in the     *)
(* AsyncStorage item 'appSettings') and the backend POST                   *)
(* /api/attendance/log handler with the GeofenceRegion collection.         *)
(*                                                                         *)
(* JavaScript objects are records; a key an object does not have reads as  *)
(* Undefined (Get).  Coordinates lie on the meridian longitude = 0 with    *)
(* latitudes in millidegrees, where the haversine formula reduces to       *)
(* R * |dphi|.  The handlers of the LocationService are async functions:   *)
(* every await of network or storage I/O is a step of its own.  task holds *)
(* the handler that runs; a retryFailedRequests call beside it is worker,  *)
(* a second overlapping handleLocationUpdate invocation is parked.         *)
(***************************************************************************)
EXTENDS Integers, Sequences, FiniteSets, TLC

\* ------------------------------------------------------------------ bounds
\* attendance events generated in one behaviour
MaxEvents == 2
\* runs of retryFailedRequests in one behaviour
MaxRetryRuns == 1
\* sample latitudes are 0..MaxLat millidegrees
MaxLat == 2
\* process restarts in one behaviour
MaxRestarts == 1
\* watch subscriptions alive at the same time
MaxWatches == 2
\* requests an API client sends to POST /api/attendance/log by itself and that
\* end in a saved record, in one behaviour
MaxPosts == 1
MaxOtps == 2
MaxVerifies == 4

\* ------------------------------------------------------- values and helpers
Undefined == "undefined"
Null == "null"

RegionIds == {"A", "B"}
Latitudes == 0..MaxLat
\* where the device is when the user presses login or logout
ManualLatitudes == {0}

\* obj.key of JavaScript: a missing key reads as undefined
Get(obj, key) == IF key \in DOMAIN obj THEN obj[key] ELSE Undefined

\* whether obj has the key
Has(obj, key) == key \in DOMAIN obj

\* { ...obj, key: value }
Spread(obj, key, value) ==
  [k \in DOMAIN obj \cup {key} |-> IF k = key THEN value ELSE obj[k]]

Abs(n) == IF n < 0 THEN -n ELSE n

Range(s) == {s[n] : n \in 1..Len(s)}

\* array.filter(keep) over indices
RECURSIVE FilterIdx(_, _)
FilterIdx(s, keep) ==
  IF s = <<>> THEN <<>>
  ELSE LET n == Len(s)
           front == FilterIdx(SubSeq(s, 1, n - 1), keep)
       IN IF n \in keep THEN Append(front, s[n]) ELSE front

\* ------------------------------------------------------------ geo-math
\* Earth's radius R = 6371e3 m, here in km
EarthRadiusKm == 6371

\* calculateDistance / getDistanceFromCenter for lon1 = lon2: a = sin^2(dphi/2),
\* c = |dphi|, distance = R * |dphi| * pi / 180.  Latitudes in millidegrees,
\* pi = 355/113, result in centimetres: (R * 3550 * |dphi|) \div (113 * 18), the
\* quotient taken term by term so that no product leaves the 32-bit integers.
calculateDistance(lat1, lon1, lat2, lon2) ==
  LET perUnit == EarthRadiusKm * 3550
      divisor == 113 * 18
      dphi == Abs(lat2 - lat1)
  IN (perUnit \div divisor) * dphi + ((perUnit % divisor) * dphi) \div divisor

\* const isInside = distance <= region.radius  (radius in metres)
IsInsideClient(location, region) ==
  calculateDistance(location.latitude, location.longitude,
                    region.center.latitude, region.center.longitude)
    <= region.radius * 100

\* the boundary counted as outside: distance < this.radius
StrictlyInside(region, latitude, longitude) ==
  calculateDistance(region.center.latitude, region.center.longitude,
                    latitude, longitude) < region.radius * 100

\* the comparison with the radius left out
PointAlwaysInside(region, latitude, longitude) == TRUE

\* GeofenceRegion.methods.isPointInside
isPointInside(region, latitude, longitude) ==
  calculateDistance(region.center.latitude, region.center.longitude,
                    latitude, longitude) <= region.radius * 100

\* the allow-list ignored
EveryUserAllowed(region, userId) == TRUE

\* GeofenceRegion.methods.isUserAllowed
isUserAllowed(region, userId) ==
  region.allowedUsers = {} \/ userId \in region.allowedUsers

\* ------------------------------------------------------------- backend
\* req.user._id of the authenticated device owner
UserId == "u1"

\* the users holding a token
Users == {"u1", "u2"}

\* whether a JavaScript string or undefined is truthy
Truthy(v) == v \notin {Undefined, ""}

GeofenceTypes == {"geofence_enter", "geofence_exit"}

\* body('location.latitude').isFloat({ min: -90, max: 90 }), in millidegrees
MaxLatitude == 90000

ValidLatitude(latitude) == latitude >= -MaxLatitude /\ latitude <= MaxLatitude

\* the GeofenceRegion documents of the seeded database, in creation order
\* workingHours in hours of the day, workingDays as days of the week (monday = 1)
SeedRegions ==
  << [regionId |-> "A", center |-> [latitude |-> 0, longitude |-> 0],
      radius |-> 150, isActive |-> TRUE, allowedUsers |-> {},
      workingHours |-> [start |-> 9, end |-> 18], workingDays |-> 1..5],
     [regionId |-> "B", center |-> [latitude |-> 1, longitude |-> 0],
      radius |-> 50, isActive |-> TRUE, allowedUsers |-> {},
      workingHours |-> [start |-> 7, end |-> 16], workingDays |-> 1..6] >>

\* the isActive condition left out of the query
FindAnyRegion(db, regionId) ==
  LET hits == {n \in 1..Len(db) : db[n].regionId = regionId}
  IN IF hits = {} THEN 0 ELSE CHOOSE n \in hits : \A m \in hits : n <= m

\* GeofenceRegion.findOne({ regionId, isActive: true }): index of the document, 0 for null
FindActiveRegion(db, regionId) ==
  LET hits == {n \in 1..Len(db) : db[n].regionId = regionId /\ db[n].isActive}
  IN IF hits = {} THEN 0 ELSE CHOOSE n \in hits : \A m \in hits : n <= m

\* new AttendanceLog({...}) of the POST /api/attendance/log handler
NewAttendanceLog(body, userId) ==
  [userId |-> userId,
   type |-> body.type,
   location |-> [latitude |-> body.location.latitude,
                 longitude |-> body.location.longitude],
   regionId |-> IF Truthy(Get(body, "regionId")) THEN body.regionId ELSE Null,
   timestamp |-> body.timestamp,
   deviceInfo |-> IF Has(body, "deviceInfo")
                  THEN [platform |-> Get(body.deviceInfo, "platform"),
                        version |-> Get(body.deviceInfo, "version")]
                  ELSE [platform |-> Undefined, version |-> Undefined]]

\* the containment check applied to both geofence types
LogStatusStrictExit(body, userId, db) ==
  IF ~ValidLatitude(body.location.latitude) THEN 400
  ELSE IF body.type \in GeofenceTypes /\ Truthy(Get(body, "regionId"))
  THEN LET n == FindActiveRegion(db, body.regionId)
       IN IF n = 0 THEN 400
          ELSE IF ~isUserAllowed(db[n], userId) THEN 403
          ELSE IF ~isPointInside(db[n], body.location.latitude, body.location.longitude)
               THEN 400
          ELSE 201
  ELSE 201

\* the validators and the region checks of the handler: the HTTP status it
\* answers with
LogStatus(body, userId, db) ==
  IF ~ValidLatitude(body.location.latitude) THEN 400
  ELSE IF body.type \in GeofenceTypes /\ Truthy(Get(body, "regionId"))
  THEN LET n == FindActiveRegion(db, body.regionId)
       IN IF n = 0 THEN 400
          ELSE IF ~isUserAllowed(db[n], userId) THEN 403
          ELSE IF body.type = "geofence_enter"
                  /\ ~isPointInside(db[n], body.location.latitude, body.location.longitude)
               THEN 400
          ELSE 201
  ELSE 201

\* attendanceLog.save() is reached only on the 201 path
LogsAfterPost(logs, body, userId, db) ==
  IF LogStatus(body, userId, db) = 201
  THEN Append(logs, NewAttendanceLog(body, userId))
  ELSE logs

\* GET /api/geofence/regions: active documents, sort({ createdAt: -1 })
RECURSIVE Reverse(_)
Reverse(s) == IF s = <<>> THEN <<>> ELSE Append(Reverse(Tail(s)), Head(s))

GetRegions(db) ==
  Reverse(FilterIdx(db, {n \in 1..Len(db) : db[n].isActive}))

\* ------------------------------------------------------------- state
VARIABLES
  geofenceRegions,    \* LocationService.geofenceRegions: array of region objects
  lastKnownRegions,   \* LocationService.lastKnownRegions: Set, in insertion order
  task,               \* the running async handler and the await it is suspended at
  appSettings,        \* AsyncStorage item 'appSettings' (parsed), NullItem when absent
  reachable,          \* whether requests reach the backend
  regionDB,           \* backend GeofenceRegion collection, in creation order
  attendanceLogs,     \* backend AttendanceLog collection, in insertion order
  emitted,            \* history: every event object handed to logAttendance
  received,           \* history: timestamps of the events the backend has received
  rejected,           \* history: timestamps of the events answered with 400 or 403
  stored,             \* history: timestamps of the events storeFailedRequest has
                      \*          written, in the order of the calls
  lastCheck,          \* history: the checkGeofenceEvents call that runs or ran last,
                      \*          until another handler starts
  retries,            \* history: number of retryFailedRequests runs
  restarts,           \* history: number of process restarts
  lastPost,           \* history: the last request an API client sent to
                      \*          POST /api/attendance/log by itself, and its answer
  worker,             \* a retryFailedRequests call running beside the handler in task
  isTracking,         \* LocationService.isTracking
  watchId,            \* LocationService.watchId: the subscription, Null when none
  lastStop,           \* history: the last stopTracking call
  lastAdmin,          \* history: the last POST or PUT /api/geofence/regions request
                      \*          and its answer
  responses,          \* history: how each submission ended for the client: the
                      \*          event, the retry run (0 for logAttendance), whether
                      \*          the call returned, and the payload sent
  lastProbe,          \* history: the last pair of containment tests made on the
                      \*          same zone and coordinate
  parked,             \* a second handleLocationUpdate invocation, suspended at an
                      \*          await while the one in task runs, with its record
  liveWatches,        \* the platform's count of watch subscriptions created by
                      \*          watchPositionAsync and not removed
  lastManual,         \* history: how the last manualLogin / manualLogout call that
                      \*          ended did end
  otpDB,              \* backend OTP collection, in creation order
  otpCalls,           \* the generateAndSendOTP and verifyOTP calls in progress and
                      \*          the await each is suspended at
  otpResults          \* history: the number of verifyOTP calls that returned and,
                      \*          for each OTP document, how many succeeded on it and
                      \*          how many failed while it was the current one

vars == <<geofenceRegions, lastKnownRegions, task, appSettings, reachable, regionDB,
          attendanceLogs, emitted, received, rejected, stored, lastCheck, retries,
          restarts, lastPost, worker, isTracking, watchId, lastStop, lastAdmin,
          responses, lastProbe, parked, liveWatches, lastManual, otpDB, otpCalls,
          otpResults>>

clientMemory == <<geofenceRegions, lastKnownRegions, task>>
backend == <<regionDB, attendanceLogs>>
history == <<emitted, received, rejected, stored, lastCheck, retries, restarts>>
tracking == <<isTracking, watchId, liveWatches>>
\* what the handlers running in task leave alone
others == <<lastPost, worker, isTracking, watchId, liveWatches, lastStop, lastAdmin>>
otp == <<otpDB, otpCalls, otpResults>>
extras == <<responses, lastProbe, parked, lastManual, otp>>

NoData == [type |-> "none"]

\* AsyncStorage.getItem answers null for an item never set
NullItem == [null |-> TRUE]

\* the object getSettings answers with when the item is absent
DefaultSettings ==
  [locationTracking |-> TRUE, notifications |-> TRUE, backgroundSync |-> TRUE]

\* no handler is running
IdleTask ==
  [pc |-> "idle", kind |-> "none",
   location |-> [latitude |-> 0, longitude |-> 0],
   regions |-> <<>>, i |-> 0, currentRegions |-> <<>>,
   exits |-> <<>>, j |-> 0, phase |-> "none",
   data |-> NoData, settings |-> DefaultSettings, requests |-> <<>>,
   failedRequests |-> <<>>, k |-> 0, successfulRequests |-> {}, threw |-> FALSE]

NoCheck ==
  [started |-> FALSE, done |-> FALSE, first |-> FALSE, location |-> [latitude |-> 0, longitude |-> 0],
   before |-> {}, registry |-> <<>>, events |-> <<>>, lookups |-> {}, threw |-> FALSE,
   newest |-> FALSE]

\* no request has been sent by an API client itself
NoPost ==
  [posted |-> FALSE, body |-> NoData, userId |-> UserId, status |-> 0, saved |-> FALSE,
   docs |-> {}]

\* no retryFailedRequests call runs beside the handler in task
IdleWorker ==
  [pc |-> "idle", settings |-> DefaultSettings, failedRequests |-> <<>>, k |-> 0,
   successfulRequests |-> {}]

\* stopTracking has not been called
NoStop == [called |-> FALSE, before |-> <<>>]

\* no request has been sent to POST or PUT /api/geofence/regions
NoAdmin ==
  [method |-> "none", regionId |-> "", body |-> NoData, status |-> 0, changed |-> FALSE]

\* no pair of containment tests has been made
NoProbe ==
  [made |-> FALSE, region |-> [center |-> [latitude |-> 0, longitude |-> 0], radius |-> 0],
   latitude |-> 0, client |-> FALSE, server |-> FALSE]

\* no second invocation is suspended
NoParked == [task |-> IdleTask, check |-> NoCheck]

\* another handler starts: the record of the last call is dropped, all but the
\* fact that the detector has processed a sample
\* no manualLogin / manualLogout call has ended
NoManual == [called |-> FALSE, timestamp |-> 0, outcome |-> "none"]

\* the requests the backend handles at the same time
Callers == {1, 2}

\* no verifyOTP call has returned
NoResults == [returned |-> 0, docs |-> <<>>]

\* no generateAndSendOTP or verifyOTP call runs for the request
IdleCall ==
  [pc |-> "idle", phoneNumber |-> "", otpCode |-> "", doc |-> 0, attempts |-> 0,
   current |-> 0, began |-> 0]

OtherHandler(chk) == [NoCheck EXCEPT !.started = chk.started]

\* the state after `new LocationService()` on a device with empty AsyncStorage
Init ==
  /\ geofenceRegions = <<>>
  /\ lastKnownRegions = <<>>
  /\ task = IdleTask
  /\ appSettings = NullItem
  /\ reachable \in BOOLEAN
  /\ regionDB = SeedRegions
  /\ attendanceLogs = <<>>
  /\ emitted = <<>>
  /\ received = {}
  /\ rejected = {}
  /\ stored = <<>>
  /\ lastCheck = NoCheck
  /\ retries = 0
  /\ restarts = 0
  /\ lastPost = NoPost
  /\ worker = IdleWorker
  /\ isTracking = FALSE
  /\ watchId = Null
  /\ lastStop = NoStop
  /\ lastAdmin = NoAdmin
  /\ responses = {}
  /\ lastProbe = NoProbe
  /\ parked = NoParked
  /\ liveWatches = 0
  /\ lastManual = NoManual
  /\ otpDB = <<>>
  /\ otpCalls = [caller \in Callers |-> IdleCall]
  /\ otpResults = NoResults

\* ------------------------------------------------- transition detector
\* Set.prototype.add on an insertion-ordered Set
SetAdd(s, x) == IF x \in Range(s) THEN s ELSE Append(s, x)

\* the has() check left out: every sample inside a region counts as an entry
AlwaysNewEntry(last, regionId) == TRUE

\* the negation left out: this.lastKnownRegions.has(regionId)
InvertedNewEntry(last, regionId) == regionId \in Range(last)

\* !this.lastKnownRegions.has(regionId)
IsNewEntry(last, regionId) == regionId \notin Range(last)

\* this.geofenceRegions.find(r => r.regionId === regionId): its index, 0 for undefined
FindRegion(regions, regionId) ==
  LET hits == {n \in 1..Len(regions) : regions[n].regionId = regionId}
  IN IF hits = {} THEN 0 ELSE CHOOSE n \in hits : \A m \in hits : n <= m

\* whether region.center.latitude can be read: an element without center makes
\* the read throw a TypeError
HasCenter(region) == Has(region, "center")

\* the first loop of checkGeofenceEvents from region c.i on, up to its next
\* `await this.handleGeofenceEvent('enter', ...)`, the end of the array, or a
\* throw that takes the call to its catch
RECURSIVE EnterLoop(_, _)
EnterLoop(c, last) ==
  IF c.i > Len(c.regions) THEN [c EXCEPT !.phase = "exit", !.exits = last, !.j = 1]
  ELSE LET region == c.regions[c.i]
       IN IF ~HasCenter(region) THEN [c EXCEPT !.phase = "threw"]
          ELSE IF IsInsideClient(c.location, region)
          THEN LET c1 == [c EXCEPT !.currentRegions = SetAdd(@, region.regionId)]
               IN IF IsNewEntry(last, region.regionId)
                  THEN [c1 EXCEPT !.phase = "atEnter"]
                  ELSE EnterLoop([c1 EXCEPT !.i = @ + 1], last)
          ELSE EnterLoop([c EXCEPT !.i = @ + 1], last)

\* every zone of the iterated Set counted as left
AlwaysExited(c, regionId) == TRUE

\* !currentRegions.has(regionId)
HasExited(c, regionId) == regionId \notin Range(c.currentRegions)

\* the second loop from element c.j of the iterated Set on, up to its next
\* `await this.handleGeofenceEvent('exit', ...)` or the end of the Set
RECURSIVE ExitLoop(_, _)
ExitLoop(c, regions) ==
  IF c.j > Len(c.exits) THEN [c EXCEPT !.phase = "done"]
  ELSE LET regionId == c.exits[c.j]
       IN IF HasExited(c, regionId) /\ FindRegion(regions, regionId) # 0
          THEN [c EXCEPT !.phase = "atExit"]
          ELSE ExitLoop([c EXCEPT !.j = @ + 1], regions)

\* checkGeofenceEvents runs on to its next await or to its end
RunCheck(c, last, regions) ==
  LET c1 == IF c.phase = "enter" THEN EnterLoop(c, last) ELSE c
  IN IF c1.phase = "exit" THEN ExitLoop(c1, regions) ELSE c1

\* the region handleGeofenceEvent is called with
EventRegion(c, regions) ==
  IF c.phase = "atEnter" THEN c.regions[c.i]
  ELSE regions[FindRegion(regions, c.exits[c.j])]

\* the wall clock ticks once per generated event
Now == Len(emitted)

\* the two attendance types the wrong way round
SwappedEventData(eventType, region, location, clock) ==
  [type |-> IF eventType = "enter" THEN "geofence_exit" ELSE "geofence_enter",
   location |-> [latitude |-> location.latitude, longitude |-> location.longitude],
   regionId |-> region.regionId,
   timestamp |-> clock]

\* the object handleGeofenceEvent hands to logAttendance
GeofenceEventData(eventType, region, location, clock) ==
  [type |-> IF eventType = "enter" THEN "geofence_enter" ELSE "geofence_exit",
   location |-> [latitude |-> location.latitude, longitude |-> location.longitude],
   regionId |-> region.regionId,
   timestamp |-> clock]

\* the number of events one checkGeofenceEvents(location) call generates
PendingEvents(location) ==
  LET bad == {n \in 1..Len(geofenceRegions) : ~HasCenter(geofenceRegions[n])}
      inside == {n \in 1..Len(geofenceRegions) :
                   /\ \A m \in bad : n < m
                   /\ IsInsideClient(location, geofenceRegions[n])}
      current == {geofenceRegions[n].regionId : n \in inside}
  IN Cardinality({n \in inside : IsNewEntry(lastKnownRegions, geofenceRegions[n].regionId)})
     + IF bad # {} THEN 0
       ELSE Cardinality({r \in Range(lastKnownRegions) :
                           r \notin current /\ FindRegion(geofenceRegions, r) # 0})

\* whether the call, running on from c, executes this.geofenceRegions.find(...)
\* in its second loop before its next await
ExitLookup(c, last) ==
  LET c1 == IF c.phase = "enter" THEN EnterLoop(c, last) ELSE c
  IN /\ c1.phase = "exit"
     /\ \E j \in c1.j..Len(c1.exits) : HasExited(c1, c1.exits[j])

\* the handler continues after an await: to the next event or to its end
Advance(c, chk0) ==
  LET r == RunCheck(c, lastKnownRegions, geofenceRegions)
      chk == IF ExitLookup(c, lastKnownRegions)
             THEN [chk0 EXCEPT !.lookups = @ \cup {geofenceRegions}]
             ELSE chk0
  IN IF r.phase \in {"atEnter", "atExit"}
     THEN LET data == GeofenceEventData(IF r.phase = "atEnter" THEN "enter" ELSE "exit",
                                        EventRegion(r, geofenceRegions),
                                        r.location, Now + 1)
          IN /\ task' = [r EXCEPT !.pc = "post", !.data = data]
             /\ emitted' = Append(emitted, data)
             /\ lastCheck' = [chk EXCEPT !.events = Append(@, [type |-> data.type,
                                                              regionId |-> data.regionId])]
             /\ UNCHANGED lastKnownRegions
     ELSE IF r.phase = "threw"
     THEN /\ task' = IdleTask          \* catch (error) of checkGeofenceEvents
          /\ lastCheck' = [chk EXCEPT !.threw = TRUE]
          /\ UNCHANGED <<lastKnownRegions, emitted>>
     ELSE /\ lastKnownRegions' = r.currentRegions
          /\ task' = IdleTask
          /\ lastCheck' = [chk EXCEPT !.done = TRUE]
          /\ UNCHANGED emitted

\* logAttendance has returned to its caller
AfterLogAttendance(c) ==
  IF c.kind = "check"
  THEN Advance(IF c.phase = "atEnter"
               THEN [c EXCEPT !.phase = "enter", !.i = @ + 1, !.data = NoData]
               ELSE [c EXCEPT !.phase = "exit", !.j = @ + 1, !.data = NoData],
               lastCheck)
  ELSE /\ task' = IdleTask
       /\ UNCHANGED <<lastKnownRegions, emitted, lastCheck>>

\* manualLogin / manualLogout after `await this.logAttendance(...)`: return true
ManualReturn(c) ==
  lastManual' = IF c.kind = "manual"
                THEN [called |-> TRUE, timestamp |-> c.data.timestamp, outcome |-> "true"]
                ELSE lastManual

\* handleLocationUpdate(location) -> checkGeofenceEvents(this.currentLocation)
HandleLocationUpdate(lat) ==
  LET location == [latitude |-> lat, longitude |-> 0]
  IN /\ task.pc = "idle"
     /\ Len(emitted) + PendingEvents(location) <= MaxEvents
     /\ Advance([IdleTask EXCEPT !.kind = "check", !.location = location,
                                 !.regions = geofenceRegions, !.i = 1,
                                 !.phase = "enter"],
                [started |-> TRUE, done |-> FALSE, first |-> ~lastCheck.started,
                 location |-> location, before |-> Range(lastKnownRegions),
                 registry |-> geofenceRegions, events |-> <<>>, lookups |-> {},
                 threw |-> FALSE, newest |-> TRUE])
     /\ parked' = [parked EXCEPT !.check.newest = FALSE]
     /\ UNCHANGED <<geofenceRegions, appSettings, reachable, backend,
                    received, rejected, stored, retries, restarts>>
     /\ UNCHANGED others
  /\ UNCHANGED <<responses, lastProbe, lastManual, otp>>

\* ------------------------------------------------------ storage helpers
StringKeys == {"type", "regionId"}

\* JSON.parse(JSON.stringify(obj)) of a request object: a key whose value is
\* undefined is not written
JSONObject(obj) ==
  LET kept == {key \in DOMAIN obj : ~(key \in StringKeys /\ obj[key] = Undefined)}
  IN [key \in kept |-> obj[key]]

\* JSON.parse(JSON.stringify(settings))
JSONSettings(settings) ==
  IF Has(settings, "failedAttendanceRequests")
  THEN LET list == settings.failedAttendanceRequests
       IN Spread(settings, "failedAttendanceRequests",
                 [n \in 1..Len(list) |-> JSONObject(list[n])])
  ELSE settings

\* whether an AsyncStorage call throws; no storage error is injected
StorageErrors == {FALSE}

\* storage.getSettings: the parsed item, or the defaults when there is none or
\* when getItem throws
getSettings(item, throws) ==
  IF throws \/ item = NullItem THEN DefaultSettings ELSE item

\* storage.setSettings: the item after the call; a throwing setItem is swallowed
setSettings(item, settings, throws) ==
  IF throws THEN item ELSE JSONSettings(settings)

\* settings.failedAttendanceRequests || []
FailedRequestsOf(settings) ==
  IF Has(settings, "failedAttendanceRequests")
  THEN settings.failedAttendanceRequests ELSE <<>>

\* the list replaced by the new entry instead of extended by it
OverwriteRequest(requests, data, clock) == <<Spread(data, "failedAt", clock)>>

\* requests.push({ ...data, failedAt: new Date().toISOString() })
PushRequest(requests, data, clock) == Append(requests, Spread(data, "failedAt", clock))

\* the filter the wrong way round: the successful requests are the ones kept
SuccessfulRequestsKept(failedRequests, successful) ==
  FilterIdx(failedRequests, successful)

\* failedRequests.filter(req => !successfulRequests.includes(req))
RemainingRequests(failedRequests, successful) ==
  FilterIdx(failedRequests, (1..Len(failedRequests)) \ successful)

\* ------------------------------------------------------- submission
DeviceInfo == [platform |-> "mobile", version |-> "1.0.0"]

\* the request reaches the backend, which handles it
Deliver(body) ==
  /\ attendanceLogs' = LogsAfterPost(attendanceLogs, body, UserId, regionDB)
  /\ received' = received \cup {body.timestamp}
  /\ rejected' = IF LogStatus(body, UserId, regionDB) \in {400, 403}
                 THEN rejected \cup {body.timestamp} ELSE rejected

\* the request never reaches the backend
NotDelivered == UNCHANGED <<attendanceLogs, received, rejected>>

\* the call attendanceAPI.logAttendance(body) of retry run `run` (0: of
\* logAttendance) has returned (ok) or thrown
Respond(body, run, ok) ==
  responses' = responses \cup {[timestamp |-> body.timestamp, run |-> run, ok |-> ok,
                                 body |-> body]}

\* a catch that rethrows to the caller and stores nothing
RethrowLogAttendance ==
  /\ task' = IdleTask
  /\ lastManual' = IF task.kind = "manual"
                   THEN [called |-> TRUE, timestamp |-> 0, outcome |-> "throws"]
                   ELSE lastManual
  /\ UNCHANGED <<lastKnownRegions, emitted, lastCheck>>

\* catch (error) of logAttendance: await this.storeFailedRequest(data)
CatchLogAttendance ==
  /\ task' = [task EXCEPT !.pc = "getSettings"]
  /\ UNCHANGED <<lastKnownRegions, emitted, lastCheck, lastManual>>

\* logAttendance: `await attendanceAPI.logAttendance(attendanceData)` settles
LogAttendanceReturn ==
  /\ task.pc = "post"
  /\ task.kind \in {"check", "manual"}
  /\ LET attendanceData == Spread(task.data, "deviceInfo", DeviceInfo)
     IN \/ /\ reachable
           /\ Deliver(attendanceData)
           /\ Respond(attendanceData, 0, LogStatus(attendanceData, UserId, regionDB) = 201)
           /\ IF LogStatus(attendanceData, UserId, regionDB) = 201
              THEN AfterLogAttendance(task) /\ ManualReturn(task)
              ELSE CatchLogAttendance
        \/ /\ reachable            \* handled by the backend, the response times out
           /\ Deliver(attendanceData)
           /\ Respond(attendanceData, 0, FALSE)
           /\ CatchLogAttendance
        \/ /\ ~reachable
           /\ NotDelivered
           /\ Respond(attendanceData, 0, FALSE)
           /\ CatchLogAttendance
  /\ UNCHANGED <<geofenceRegions, appSettings, reachable, regionDB, stored, retries,
                 restarts>>
  /\ UNCHANGED others
  /\ UNCHANGED <<lastProbe, parked, otp>>

\* storeFailedRequest: `await storage.getSettings()` settles; throws: whether
\* AsyncStorage.getItem threw inside it
StoreGetSettings(throws) ==
  /\ task.pc = "getSettings"
  /\ LET failedRequests == getSettings(appSettings, throws)
     IN task' = [task EXCEPT !.pc = "setSettings",
                             !.settings = failedRequests,
                             !.requests = PushRequest(FailedRequestsOf(failedRequests),
                                                      task.data, Now),
                             !.threw = throws]
  /\ UNCHANGED <<geofenceRegions, lastKnownRegions, appSettings, reachable, backend, history>>
  /\ UNCHANGED others
  /\ UNCHANGED extras

StoreGetSettingsReturn == \E throws \in StorageErrors : StoreGetSettings(throws)

\* storeFailedRequest: `await storage.setSettings(...)` settles; logAttendance
\* returns; throws: whether AsyncStorage.setItem threw inside it
StoreSetSettings(throws) ==
  /\ task.pc = "setSettings"
  /\ appSettings' = setSettings(appSettings,
                                Spread(task.settings, "failedAttendanceRequests",
                                       task.requests),
                                throws)
  /\ stored' = IF throws THEN stored ELSE Append(stored, task.data.timestamp)
  /\ AfterLogAttendance([task EXCEPT !.settings = DefaultSettings, !.requests = <<>>,
                                     !.threw = FALSE])
  /\ ManualReturn(task)
  /\ UNCHANGED <<geofenceRegions, reachable, backend, received, rejected, retries, restarts>>
  /\ UNCHANGED others
  /\ UNCHANGED <<responses, lastProbe, parked, otp>>

StoreSetSettingsReturn == \E throws \in StorageErrors : StoreSetSettings(throws)

\* ------------------------------------------------------------- retry
\* retryFailedRequests is called
RetryFailedRequests ==
  /\ task.pc = "idle"
  /\ retries < MaxRetryRuns
  /\ task' = [IdleTask EXCEPT !.pc = "retryGet", !.kind = "retry"]
  /\ retries' = retries + 1
  /\ lastCheck' = OtherHandler(lastCheck)
  /\ UNCHANGED <<geofenceRegions, lastKnownRegions, appSettings, reachable, backend,
                 emitted, received, rejected, stored, restarts>>
  /\ UNCHANGED others
  /\ UNCHANGED extras

\* retryFailedRequests: `await storage.getSettings()` settles
RetryGetSettings(throws) ==
  /\ task.pc = "retryGet"
  /\ LET settings == getSettings(appSettings, throws)
         failedRequests == FailedRequestsOf(settings)
     IN task' = IF Len(failedRequests) = 0
                THEN IdleTask
                ELSE [task EXCEPT !.pc = "retryPost", !.settings = settings,
                                  !.failedRequests = failedRequests, !.k = 1,
                                  !.data = failedRequests[1]]
  /\ UNCHANGED <<geofenceRegions, lastKnownRegions, appSettings, reachable, backend, history>>
  /\ UNCHANGED others
  /\ UNCHANGED extras

RetryGetSettingsReturn == \E throws \in StorageErrors : RetryGetSettings(throws)

\* the for loop of retryFailedRequests moves to its next request or to the filter
RetryNext(successful) ==
  task' = IF task.k < Len(task.failedRequests)
          THEN [task EXCEPT !.k = @ + 1, !.data = task.failedRequests[task.k + 1],
                            !.successfulRequests = successful]
          ELSE [task EXCEPT !.pc = "retrySet", !.data = NoData,
                            !.successfulRequests = successful]

\* retryFailedRequests: `await attendanceAPI.logAttendance(request)` settles
RetryPostReturn ==
  /\ task.pc = "retryPost"
  /\ LET request == task.data
     IN \/ /\ reachable
           /\ Deliver(request)
           /\ Respond(request, retries, LogStatus(request, UserId, regionDB) = 201)
           /\ IF LogStatus(request, UserId, regionDB) = 201
              THEN RetryNext(task.successfulRequests \cup {task.k})
              ELSE RetryNext(task.successfulRequests)
        \/ /\ reachable            \* handled by the backend, the response times out
           /\ Deliver(request)
           /\ Respond(request, retries, FALSE)
           /\ RetryNext(task.successfulRequests)
        \/ /\ ~reachable
           /\ NotDelivered
           /\ Respond(request, retries, FALSE)
           /\ RetryNext(task.successfulRequests)
  /\ UNCHANGED <<geofenceRegions, lastKnownRegions, appSettings, reachable, regionDB,
                 emitted, stored, lastCheck, retries, restarts>>
  /\ UNCHANGED others
  /\ UNCHANGED <<lastProbe, parked, lastManual, otp>>

\* retryFailedRequests: the remaining requests are written back
RetrySetSettings(throws) ==
  /\ task.pc = "retrySet"
  /\ appSettings' = setSettings(appSettings,
                                Spread(task.settings, "failedAttendanceRequests",
                                       RemainingRequests(task.failedRequests,
                                                         task.successfulRequests)),
                                throws)
  /\ task' = IdleTask
  /\ UNCHANGED <<geofenceRegions, lastKnownRegions, reachable, backend, history>>
  /\ UNCHANGED others
  /\ UNCHANGED extras

RetrySetSettingsReturn == \E throws \in StorageErrors : RetrySetSettings(throws)

\* ------------------------------------- retry beside the running handler
\* retryFailedRequests is called while another handler may be suspended at an await
WorkerStart ==
  /\ worker.pc = "idle"
  /\ retries < MaxRetryRuns
  /\ worker' = [IdleWorker EXCEPT !.pc = "retryGet"]
  /\ retries' = retries + 1
  /\ UNCHANGED <<clientMemory, appSettings, reachable, backend, emitted, received,
                 rejected, stored, lastCheck, restarts, lastPost, tracking, lastStop, lastAdmin>>
  /\ UNCHANGED extras

\* retryFailedRequests: `await storage.getSettings()` settles
WorkerGetSettingsReturn ==
  /\ worker.pc = "retryGet"
  /\ \E throws \in StorageErrors :
       LET settings == getSettings(appSettings, throws)
           failedRequests == FailedRequestsOf(settings)
       IN worker' = IF Len(failedRequests) = 0
                    THEN IdleWorker
                    ELSE [worker EXCEPT !.pc = "retryPost", !.settings = settings,
                                        !.failedRequests = failedRequests, !.k = 1]
  /\ UNCHANGED <<clientMemory, appSettings, reachable, backend, history, lastPost,
                 tracking, lastStop, lastAdmin>>
  /\ UNCHANGED extras

\* the for loop of retryFailedRequests moves to its next request or to the filter
WorkerNext(successful) ==
  worker' = IF worker.k < Len(worker.failedRequests)
            THEN [worker EXCEPT !.k = @ + 1, !.successfulRequests = successful]
            ELSE [worker EXCEPT !.pc = "retrySet", !.successfulRequests = successful]

\* retryFailedRequests: `await attendanceAPI.logAttendance(request)` settles
WorkerPostReturn ==
  /\ worker.pc = "retryPost"
  /\ LET request == worker.failedRequests[worker.k]
     IN \/ /\ reachable
           /\ Deliver(request)
           /\ Respond(request, retries, LogStatus(request, UserId, regionDB) = 201)
           /\ IF LogStatus(request, UserId, regionDB) = 201
              THEN WorkerNext(worker.successfulRequests \cup {worker.k})
              ELSE WorkerNext(worker.successfulRequests)
        \/ /\ reachable            \* handled by the backend, the response times out
           /\ Deliver(request)
           /\ Respond(request, retries, FALSE)
           /\ WorkerNext(worker.successfulRequests)
        \/ /\ ~reachable
           /\ NotDelivered
           /\ Respond(request, retries, FALSE)
           /\ WorkerNext(worker.successfulRequests)
  /\ UNCHANGED <<clientMemory, appSettings, reachable, regionDB, emitted, stored,
                 lastCheck, retries, restarts, lastPost, tracking, lastStop, lastAdmin>>
  /\ UNCHANGED <<lastProbe, parked, lastManual, otp>>

\* retryFailedRequests: the remaining requests are written back
WorkerSetSettingsReturn ==
  /\ worker.pc = "retrySet"
  /\ \E throws \in StorageErrors :
       appSettings' = setSettings(appSettings,
                                  Spread(worker.settings, "failedAttendanceRequests",
                                         RemainingRequests(worker.failedRequests,
                                                           worker.successfulRequests)),
                                  throws)
  /\ worker' = IdleWorker
  /\ UNCHANGED <<clientMemory, reachable, backend, history, lastPost, tracking, lastStop,
                 lastAdmin>>
  /\ UNCHANGED extras

\* ------------------------------------------------- the other operations
\* loadGeofenceRegions: the snapshot is replaced by the response, or by [] in the catch
LoadGeofenceRegions ==
  /\ task.pc = "idle"
  /\ geofenceRegions' = IF reachable THEN GetRegions(regionDB) ELSE <<>>
  /\ lastCheck' = OtherHandler(lastCheck)
  /\ UNCHANGED <<lastKnownRegions, task, appSettings, reachable, backend,
                 emitted, received, rejected, stored, retries, restarts>>
  /\ UNCHANGED others
  /\ UNCHANGED extras

\* what a loadGeofenceRegions call leaves in this.geofenceRegions
LoadedRegions == IF reachable THEN GetRegions(regionDB) ELSE <<>>

\* loadGeofenceRegions (a second initialize() of the screen) settles while a
\* checkGeofenceEvents call is suspended at an await
LoadDuringCheck ==
  /\ task.kind = "check"
  /\ task.pc # "idle"
  /\ geofenceRegions' = LoadedRegions
  /\ UNCHANGED <<lastKnownRegions, task, appSettings, reachable, backend, history, others>>
  /\ UNCHANGED extras

\* a GeofenceRegion document without center, written to the collection without
\* the schema
BadRegion ==
  [regionId |-> "M", radius |-> 50, isActive |-> TRUE, allowedUsers |-> {}]

\* s with x inserted at position n
InsertAt(s, n, x) == SubSeq(s, 1, n - 1) \o <<x>> \o SubSeq(s, n, Len(s))

\* loadGeofenceRegions when the response holds such a document at position n
LoadBadRegions(n) ==
  /\ task.pc = "idle"
  /\ geofenceRegions = <<>>
  /\ reachable
  /\ n \in 1..(Len(GetRegions(regionDB)) + 1)
  /\ geofenceRegions' = InsertAt(GetRegions(regionDB), n, BadRegion)
  /\ lastCheck' = OtherHandler(lastCheck)
  /\ UNCHANGED <<lastKnownRegions, task, appSettings, reachable, backend,
                 emitted, received, rejected, stored, retries, restarts, others>>
  /\ UNCHANGED extras

\* how the platform calls of startTracking end
StartOutcomes == {"started", "watchFails", "backgroundFails"}

\* startTracking: the watch subscription, then the background updates
StartTracking(outcome) ==
  /\ ~isTracking
  /\ liveWatches < MaxWatches
  /\ watchId' = IF outcome = "watchFails" THEN watchId ELSE "watch"
  /\ liveWatches' = IF outcome = "watchFails" THEN liveWatches ELSE liveWatches + 1
  /\ isTracking' = (outcome = "started")
  /\ UNCHANGED <<clientMemory, appSettings, reachable, backend, history, lastPost,
                 worker, lastStop, lastAdmin>>
  /\ UNCHANGED extras

\* the callback of the watch subscription: (location) => this.handleLocationUpdate(location)
WatchCallback(lat) ==
  /\ liveWatches > 0
  /\ HandleLocationUpdate(lat)

\* stopTracking with the 'appSettings' item removed as well
StopTrackingClearingSettings(platformFails) ==
  /\ watchId' = Null
  /\ liveWatches' = IF watchId # Null THEN liveWatches - 1 ELSE liveWatches
  /\ isTracking' = IF platformFails THEN isTracking ELSE FALSE
  /\ appSettings' = NullItem
  /\ lastStop' = [called |-> TRUE, before |-> FailedRequestsOf(getSettings(appSettings, FALSE))]
  /\ UNCHANGED <<clientMemory, reachable, backend, history, lastPost, worker, lastAdmin>>
  /\ UNCHANGED extras

\* stopTracking: the subscription is removed; when stopLocationUpdatesAsync
\* throws, the catch leaves isTracking as it was
StopTracking(platformFails) ==
  /\ watchId' = Null
  /\ liveWatches' = IF watchId # Null THEN liveWatches - 1 ELSE liveWatches
  /\ isTracking' = IF platformFails THEN isTracking ELSE FALSE
  /\ lastStop' = [called |-> TRUE, before |-> FailedRequestsOf(getSettings(appSettings, FALSE))]
  /\ UNCHANGED <<clientMemory, appSettings, reachable, backend, history, lastPost, worker,
                 lastAdmin>>
  /\ UNCHANGED extras

\* The watch callback does not await handleLocationUpdate, so a second
\* invocation can start while the first is suspended at an await.  task holds the
\* invocation that runs next, parked the other one: this step is the event
\* loop turning to the other invocation (or to none, for a new callback).
SwitchInvocation ==
  /\ task.kind \in {"none", "check"}
  /\ task.pc # "idle" \/ parked.task.pc # "idle"
  /\ task' = parked.task
  /\ lastCheck' = parked.check
  /\ parked' = [task |-> task, check |-> lastCheck]
  /\ UNCHANGED <<geofenceRegions, lastKnownRegions, appSettings, reachable, backend,
                 emitted, received, rejected, stored, retries, restarts, others,
                 responses, lastProbe, lastManual, otp>>

\* the zone data and the latitudes the two containment tests are compared on:
\* the radii of the seeded zones and the ends of the schema's range, and a
\* circle whose boundary passes exactly through a latitude (118 millidegrees
\* are 13121 m in the units of calculateDistance)
ProbeRegions ==
  {[center |-> [latitude |-> lat, longitude |-> 0], radius |-> radius] :
     lat \in {0, 1}, radius \in {1, 50, 150, 10000, 13121}}

ProbeLatitudes == Latitudes \cup {117, 118, 119}

\* the client's test of checkGeofenceEvents and the server's isPointInside
\* evaluated on the same zone data and coordinate
ContainmentProbe(region, lat) ==
  /\ lastProbe' = [made |-> TRUE, region |-> region, latitude |-> lat,
                   client |-> IsInsideClient([latitude |-> lat, longitude |-> 0], region),
                   server |-> isPointInside(region, lat, 0)]
  /\ UNCHANGED <<clientMemory, appSettings, reachable, backend, history, others,
                 responses, parked, lastManual, otp>>

\* the object manualLogin / manualLogout hand to logAttendance
ManualEventData(type, location, clock) ==
  [type |-> type,
   location |-> [latitude |-> location.latitude, longitude |-> location.longitude],
   timestamp |-> clock]

\* manualLogin (type "login") and manualLogout (type "logout")
ManualLog(type, lat) ==
  /\ task.pc = "idle"
  /\ Len(emitted) < MaxEvents
  /\ LET data == ManualEventData(type, [latitude |-> lat, longitude |-> 0], Now + 1)
     IN /\ task' = [IdleTask EXCEPT !.pc = "post", !.kind = "manual", !.data = data]
        /\ emitted' = Append(emitted, data)
  /\ lastCheck' = OtherHandler(lastCheck)
  /\ UNCHANGED <<geofenceRegions, lastKnownRegions, appSettings, reachable, backend,
                 received, rejected, stored, retries, restarts>>
  /\ UNCHANGED others
  /\ UNCHANGED extras

\* manualLogin / manualLogout when `await this.getCurrentLocation()` throws: the
\* catch logs and rethrows
ManualLogNoLocation(type) ==
  /\ task.pc = "idle"
  /\ lastManual' = [called |-> TRUE, timestamp |-> 0, outcome |-> "throws"]
  /\ lastCheck' = OtherHandler(lastCheck)
  /\ UNCHANGED <<geofenceRegions, lastKnownRegions, task, appSettings, reachable, backend,
                 emitted, received, rejected, stored, retries, restarts>>
  /\ UNCHANGED others
  /\ UNCHANGED <<responses, lastProbe, parked, otp>>

\* the process dies and is launched again: `new LocationService()`; AsyncStorage stays
Restart ==
  /\ restarts < MaxRestarts
  /\ restarts' = restarts + 1
  /\ geofenceRegions' = <<>>
  /\ lastKnownRegions' = <<>>
  /\ task' = IdleTask
  /\ lastCheck' = NoCheck
  /\ worker' = IdleWorker
  /\ isTracking' = FALSE
  /\ watchId' = Null
  /\ liveWatches' = 0
  /\ UNCHANGED <<appSettings, reachable, backend, emitted, received, rejected, stored,
                 retries, lastPost, lastStop, lastAdmin>>
  /\ parked' = NoParked
  /\ UNCHANGED <<responses, lastProbe, lastManual, otp>>

\* connectivity comes or goes
NetworkChange ==
  /\ reachable' = ~reachable
  /\ UNCHANGED <<clientMemory, appSettings, backend, history>>
  /\ UNCHANGED others
  /\ UNCHANGED extras

\* DELETE /api/geofence/regions/:regionId by an administrator: soft delete
DeleteRegion(regionId) ==
  /\ FindActiveRegion(regionDB, regionId) # 0
  /\ regionDB' = [regionDB EXCEPT ![FindActiveRegion(regionDB, regionId)].isActive = FALSE]
  /\ UNCHANGED <<clientMemory, appSettings, reachable, attendanceLogs, history>>
  /\ UNCHANGED others
  /\ UNCHANGED extras

\* --------------------------------------------------- backend API clients
\* the request bodies an API client sends: regionId absent, empty, naming the
\* seeded zone A or naming no zone; times in hours since Monday 00:00
SubmitRegionIds == {"", "A", "C"}
SubmitTimes == {12, 22}

PlainBodies ==
  {[type |-> type, location |-> [latitude |-> lat, longitude |-> 0], timestamp |-> t] :
     type \in GeofenceTypes \cup {"login"}, lat \in Latitudes, t \in SubmitTimes}

SubmitBodies ==
  PlainBodies \cup {Spread(body, "regionId", r) : body \in PlainBodies, r \in SubmitRegionIds}

\* POST /api/attendance/log with a valid body, sent by userId's client
SubmitLog(body, userId) ==
  /\ Len(attendanceLogs) < MaxPosts
  /\ attendanceLogs' = LogsAfterPost(attendanceLogs, body, userId, regionDB)
  /\ lastPost' = [posted |-> TRUE, body |-> body, userId |-> userId,
                  status |-> LogStatus(body, userId, regionDB),
                  saved |-> attendanceLogs' # attendanceLogs,
                  docs |-> {regionDB[n] : n \in {m \in 1..Len(regionDB) :
                              regionDB[m].regionId = Get(body, "regionId")}}]
  /\ UNCHANGED <<clientMemory, appSettings, reachable, regionDB, history, worker,
                 tracking, lastStop, lastAdmin>>
  /\ UNCHANGED extras

\* the bodies an administrator sends to PUT /api/geofence/regions/:regionId
UpdateBodies == {[allowedUsers |-> {}], [allowedUsers |-> {"u2"}]}

\* radius: min 1, max 10000
MinRadius == 1
MaxRadius == 10000

\* the range left unchecked
AnyRadius(radius) == TRUE

\* body('radius').isInt({ min: 1, max: 10000 }) of the routes and min / max of
\* the schema path, for an integer
ValidRadius(radius) == radius >= MinRadius /\ radius <= MaxRadius

\* region.save() runs the schema validators and throws a ValidationError
SaveFails(region) == ~ValidRadius(region.radius)

\* the regionId index left out
NoUniqueIndex(db, n, region) == FALSE

\* regionId: { unique: true }: region.save() of document n (0: a new one) throws a
\* duplicate key error when another document holds the regionId
DuplicateKey(db, n, region) ==
  \E m \in 1..Len(db) : m # n /\ db[m].regionId = region.regionId

\* Object.keys(updateData).forEach(key => region[key] = updateData[key])
UpdatedRegion(region, updateData) ==
  [key \in DOMAIN region \cup DOMAIN updateData |->
     IF key \in DOMAIN updateData THEN updateData[key] ELSE region[key]]

\* the HTTP status PUT /api/geofence/regions/:regionId answers with
UpdateStatus(db, regionId, updateData) ==
  IF Has(updateData, "radius") /\ ~ValidRadius(updateData.radius) THEN 400
  ELSE IF FindActiveRegion(db, regionId) = 0 THEN 404
  ELSE IF SaveFails(UpdatedRegion(db[FindActiveRegion(db, regionId)], updateData)) THEN 500
  ELSE IF DuplicateKey(db, FindActiveRegion(db, regionId),
                       UpdatedRegion(db[FindActiveRegion(db, regionId)], updateData))
  THEN 500
  ELSE 200

\* PUT /api/geofence/regions/:regionId: every key of the body is copied onto the
\* active document
UpdateRegion(regionId, updateData) ==
  /\ regionDB' = IF UpdateStatus(regionDB, regionId, updateData) = 200
                 THEN LET n == FindActiveRegion(regionDB, regionId)
                      IN [regionDB EXCEPT ![n] = UpdatedRegion(regionDB[n], updateData)]
                 ELSE regionDB
  /\ lastAdmin' = [method |-> "PUT", regionId |-> regionId, body |-> updateData,
                   status |-> UpdateStatus(regionDB, regionId, updateData),
                   changed |-> regionDB' # regionDB]
  /\ UNCHANGED <<clientMemory, appSettings, reachable, attendanceLogs, history, lastPost,
                 worker, tracking, lastStop>>
  /\ UNCHANGED extras

\* the radii an administrator asks for: the two ends of the range and their
\* neighbours outside it
RequestedRadii == {MinRadius - 1, MinRadius, MaxRadius, MaxRadius + 1}

RadiusBodies == {[radius |-> radius] : radius \in RequestedRadii}

\* the zone ids an administrator names: the seeded ones and a new one
AdminRegionIds == RegionIds \cup {"C"}

\* update bodies that carry the keys the PUT validators do not look at: the
\* zone id and the active flag
IdentityBodies ==
  {[regionId |-> regionId] : regionId \in AdminRegionIds}
    \cup {[isActive |-> isActive] : isActive \in BOOLEAN}

\* the bodies an administrator sends to POST /api/geofence/regions
CreateBodies ==
  {[regionId |-> regionId, center |-> [latitude |-> MaxLat, longitude |-> 0],
    radius |-> radius] : regionId \in {"A", "C"}, radius \in RequestedRadii}

\* new GeofenceRegion({...}) of the POST handler, with the schema defaults
NewGeofenceRegion(body) ==
  [regionId |-> body.regionId,
   center |-> [latitude |-> body.center.latitude, longitude |-> body.center.longitude],
   radius |-> body.radius, isActive |-> TRUE,
   allowedUsers |-> IF Has(body, "allowedUsers") THEN body.allowedUsers ELSE {},
   workingHours |-> IF Has(body, "workingHours") THEN body.workingHours
                    ELSE [start |-> 9, end |-> 18],
   workingDays |-> IF Has(body, "workingDays") THEN body.workingDays ELSE 1..5]

\* the HTTP status POST /api/geofence/regions answers with
CreateStatus(db, body) ==
  IF ~ValidLatitude(body.center.latitude) \/ ~ValidRadius(body.radius) THEN 400
  ELSE IF \E n \in 1..Len(db) : db[n].regionId = body.regionId THEN 400
  ELSE IF SaveFails(NewGeofenceRegion(body)) THEN 500
  ELSE IF DuplicateKey(db, 0, NewGeofenceRegion(body)) THEN 500
  ELSE 201

\* POST /api/geofence/regions
CreateRegion(body) ==
  /\ regionDB' = IF CreateStatus(regionDB, body) = 201
                 THEN Append(regionDB, NewGeofenceRegion(body))
                 ELSE regionDB
  /\ lastAdmin' = [method |-> "POST", regionId |-> body.regionId, body |-> body,
                   status |-> CreateStatus(regionDB, body),
                   changed |-> regionDB' # regionDB]
  /\ UNCHANGED <<clientMemory, appSettings, reachable, attendanceLogs, history, lastPost,
                 worker, tracking, lastStop>>
  /\ UNCHANGED extras

\* ------------------------------------------------------- specification
Next ==
  \/ \E lat \in Latitudes : HandleLocationUpdate(lat)
  \/ LogAttendanceReturn
  \/ StoreGetSettingsReturn
  \/ StoreSetSettingsReturn
  \/ RetryFailedRequests
  \/ RetryGetSettingsReturn
  \/ RetryPostReturn
  \/ RetrySetSettingsReturn
  \/ LoadGeofenceRegions
  \/ \E type \in {"login", "logout"}, lat \in ManualLatitudes : ManualLog(type, lat)
  \/ Restart
  \/ NetworkChange
  \/ \E regionId \in RegionIds : DeleteRegion(regionId)

Spec == Init /\ [][Next]_vars

\* One detector instance fed samples against a fixed registry: the registry is
\* loaded while it is still empty (initialize, startGeofencing) and not replaced
\* afterwards; no manual events, no retry runs, no restart.
InitialLoad ==
  /\ geofenceRegions = <<>>
  /\ LoadGeofenceRegions

NextDetector ==
  \/ InitialLoad
  \/ \E lat \in Latitudes : HandleLocationUpdate(lat)
  \/ LogAttendanceReturn
  \/ StoreGetSettingsReturn
  \/ StoreSetSettingsReturn
  \/ NetworkChange
  \/ \E regionId \in RegionIds : DeleteRegion(regionId)

SpecDetector == Init /\ [][NextDetector]_vars

\* Events are generated and stored, the process restarts; retryFailedRequests is
\* not called.
NextOutbox ==
  \/ LoadGeofenceRegions
  \/ \E lat \in Latitudes : HandleLocationUpdate(lat)
  \/ \E type \in {"login", "logout"}, lat \in ManualLatitudes : ManualLog(type, lat)
  \/ LogAttendanceReturn
  \/ StoreGetSettingsReturn
  \/ StoreSetSettingsReturn
  \/ Restart
  \/ NetworkChange
  \/ \E regionId \in RegionIds : DeleteRegion(regionId)

SpecOutbox == Init /\ [][NextOutbox]_vars

\* The detector with registry refreshes, also while a call is suspended.
NextReload ==
  \/ LoadGeofenceRegions
  \/ LoadDuringCheck
  \/ \E lat \in Latitudes : HandleLocationUpdate(lat)
  \/ LogAttendanceReturn
  \/ StoreGetSettingsReturn
  \/ StoreSetSettingsReturn
  \/ NetworkChange
  \/ \E regionId \in RegionIds : DeleteRegion(regionId)

SpecReload == Init /\ [][NextReload]_vars

\* The detector against a registry whose response may hold a document without
\* center.
NextBadRegistry ==
  \/ InitialLoad
  \/ \E n \in 1..(Len(SeedRegions) + 1) : LoadBadRegions(n)
  \/ \E lat \in Latitudes : HandleLocationUpdate(lat)
  \/ LogAttendanceReturn
  \/ StoreGetSettingsReturn
  \/ StoreSetSettingsReturn
  \/ NetworkChange

SpecBadRegistry == Init /\ [][NextBadRegistry]_vars

\* storeFailedRequest and retryFailedRequests interleave at their awaits.
NextRace ==
  \/ InitialLoad
  \/ \E lat \in Latitudes : HandleLocationUpdate(lat)
  \/ LogAttendanceReturn
  \/ StoreGetSettingsReturn
  \/ StoreSetSettingsReturn
  \/ WorkerStart
  \/ WorkerGetSettingsReturn
  \/ WorkerPostReturn
  \/ WorkerSetSettingsReturn
  \/ NetworkChange

SpecRace == Init /\ [][NextRace]_vars

\* Tracking is started and stopped; samples arrive through the watch subscription.
NextTracking ==
  \/ InitialLoad
  \/ \E outcome \in StartOutcomes : StartTracking(outcome)
  \/ \E platformFails \in BOOLEAN : StopTracking(platformFails)
  \/ \E lat \in Latitudes : WatchCallback(lat)
  \/ LogAttendanceReturn
  \/ StoreGetSettingsReturn
  \/ StoreSetSettingsReturn
  \/ NetworkChange

SpecTracking == Init /\ [][NextTracking]_vars

\* The detector fed samples of which some carry a latitude no place on earth has.
SampleLatitudes == Latitudes \cup {MaxLatitude + 1000}

NextMalformed ==
  \/ InitialLoad
  \/ \E lat \in SampleLatitudes : HandleLocationUpdate(lat)
  \/ LogAttendanceReturn
  \/ StoreGetSettingsReturn
  \/ StoreSetSettingsReturn
  \/ NetworkChange

SpecMalformed == Init /\ [][NextMalformed]_vars

\* Samples arrive while an earlier handleLocationUpdate invocation is still
\* suspended; zones are deactivated meanwhile, the loaded registry stays.
NextOverlap ==
  \/ InitialLoad
  \/ \E lat \in Latitudes : HandleLocationUpdate(lat)
  \/ SwitchInvocation
  \/ LogAttendanceReturn
  \/ StoreGetSettingsReturn
  \/ StoreSetSettingsReturn
  \/ NetworkChange
  \/ \E regionId \in RegionIds : DeleteRegion(regionId)

SpecOverlap == Init /\ [][NextOverlap]_vars

\* The detector against an up-to-date registry (no zone is changed after the
\* load), and the two containment tests side by side.
NextContainment ==
  \/ InitialLoad
  \/ \E lat \in Latitudes : HandleLocationUpdate(lat)
  \/ LogAttendanceReturn
  \/ StoreGetSettingsReturn
  \/ StoreSetSettingsReturn
  \/ NetworkChange
  \/ \E region \in ProbeRegions, lat \in ProbeLatitudes : ContainmentProbe(region, lat)

SpecContainment == Init /\ [][NextContainment]_vars

\* The backend alone: API clients submit attendance events by themselves while
\* administrators update and deactivate zones.
NextBackend ==
  \/ \E body \in SubmitBodies, userId \in Users : SubmitLog(body, userId)
  \/ \E regionId \in RegionIds, updateData \in UpdateBodies :
       UpdateRegion(regionId, updateData)
  \/ \E regionId \in RegionIds : DeleteRegion(regionId)

SpecBackend == Init /\ [][NextBackend]_vars

\* The zone registry of the backend alone: administrators create, update and
\* deactivate zones.
NextRegistry ==
  \/ \E body \in CreateBodies : CreateRegion(body)
  \/ \E regionId \in AdminRegionIds, updateData \in RadiusBodies :
       UpdateRegion(regionId, updateData)
  \/ \E regionId \in AdminRegionIds : DeleteRegion(regionId)

SpecRegistry == Init /\ [][NextRegistry]_vars

\* The zone registry under requests that touch a zone's identity: creation,
\* updates of regionId, isActive and allowedUsers, and deactivation.
NextDeactivation ==
  \/ \E body \in {b \in CreateBodies : b.radius = MinRadius} : CreateRegion(body)
  \/ \E regionId \in AdminRegionIds, updateData \in IdentityBodies \cup UpdateBodies :
       UpdateRegion(regionId, updateData)
  \/ \E regionId \in AdminRegionIds : DeleteRegion(regionId)

SpecDeactivation == Init /\ [][NextDeactivation]_vars

\* The outbox over a storage that can fail: every AsyncStorage call of
\* storeFailedRequest and retryFailedRequests either settles or throws.
NextStorage ==
  \/ \E type \in {"login", "logout"}, lat \in ManualLatitudes : ManualLog(type, lat)
  \/ LogAttendanceReturn
  \/ \E throws \in BOOLEAN : StoreGetSettings(throws)
  \/ \E throws \in BOOLEAN : StoreSetSettings(throws)
  \/ RetryFailedRequests
  \/ \E throws \in BOOLEAN : RetryGetSettings(throws)
  \/ RetryPostReturn
  \/ \E throws \in BOOLEAN : RetrySetSettings(throws)
  \/ NetworkChange

SpecStorage == Init /\ [][NextStorage]_vars

\* ------------------------------------------------------- one-time codes
\* the phone number the codes are issued for, the codes generateOTP draws and
\* the codes a client submits (the last one is never issued)
PhoneNumbers == {"p"}
OtpCodes == {"111111", "222222"}
SubmittedCodes == OtpCodes \cup {"000000"}

\* attempts: { max: 3 } of the schema
MaxAttempts == 3

\* new OTP({ phoneNumber, otp, expiresAt }) with the schema defaults; expired:
\* whether expiresAt has passed
NewOTP(phoneNumber, otpCode) ==
  [phoneNumber |-> phoneNumber, otp |-> otpCode, isUsed |-> FALSE, attempts |-> 0,
   expired |-> FALSE]

\* OTP.updateMany({ phoneNumber, isUsed: false }, { isUsed: true })
InvalidateOtps(db, phoneNumber) ==
  [n \in 1..Len(db) |->
     IF db[n].phoneNumber = phoneNumber /\ ~db[n].isUsed
     THEN [db[n] EXCEPT !.isUsed = TRUE]
     ELSE db[n]]

\* the newest of the documents hits (sort({ createdAt: -1 })), 0 for null
Newest(hits) == IF hits = {} THEN 0 ELSE CHOOSE n \in hits : \A m \in hits : m <= n

\* OTP.findOne({ phoneNumber, otp, isUsed: false, expiresAt: { $gt: now } })
FindUnusedOtp(db, phoneNumber, otpCode) ==
  Newest({n \in 1..Len(db) : /\ db[n].phoneNumber = phoneNumber
                             /\ db[n].otp = otpCode
                             /\ ~db[n].isUsed
                             /\ ~db[n].expired})

\* OTP.findOne({ phoneNumber, otp })
FindAnyOtp(db, phoneNumber, otpCode) ==
  Newest({n \in 1..Len(db) : db[n].phoneNumber = phoneNumber /\ db[n].otp = otpCode})

\* the code issued last for the phone number, 0 when none was
CurrentOtp(db, phoneNumber) ==
  Newest({n \in 1..Len(db) : db[n].phoneNumber = phoneNumber})

GeneratesBegun ==
  Len(otpDB) + Cardinality({caller \in Callers : otpCalls[caller].pc = "save"})

VerifiesBegun ==
  otpResults.returned
    + Cardinality({caller \in Callers :
                     otpCalls[caller].pc \in {"findAny", "incrementAttempts", "markAsUsed"}})

\* verifyOTP returns success: true for the document doc, or success: false
\* (counted for the code that was the number's current one when the call began)
VerifyReturns(caller, doc, success) ==
  /\ otpResults' =
       [returned |-> otpResults.returned + 1,
        docs |-> [n \in 1..Len(otpResults.docs) |->
                    IF success /\ n = doc
                    THEN [otpResults.docs[n] EXCEPT !.successes = @ + 1]
                    ELSE IF ~success /\ n = otpCalls[caller].current
                    THEN [otpResults.docs[n] EXCEPT !.failures = @ + 1]
                    ELSE otpResults.docs[n]]]
  /\ otpCalls' = [otpCalls EXCEPT ![caller] = IdleCall]

\* generateAndSendOTP is called: the earlier codes of the number are invalidated
GenerateAndSendOTP(caller, phoneNumber) ==
  /\ otpCalls[caller].pc = "idle"
  /\ GeneratesBegun < MaxOtps
  /\ otpDB' = InvalidateOtps(otpDB, phoneNumber)
  /\ otpCalls' = [otpCalls EXCEPT ![caller] =
                    [IdleCall EXCEPT !.pc = "save", !.phoneNumber = phoneNumber]]
  /\ UNCHANGED otpResults
  /\ UNCHANGED <<clientMemory, appSettings, reachable, backend, history, others,
                 responses, lastProbe, parked, lastManual>>

\* generateAndSendOTP: `await OTP.updateMany(...)` has settled; the code is drawn,
\* saved and sent (the SMS result only changes the value returned)
GenerateSave(caller, otpCode) ==
  /\ otpCalls[caller].pc = "save"
  /\ otpDB' = Append(otpDB, NewOTP(otpCalls[caller].phoneNumber, otpCode))
  /\ otpCalls' = [otpCalls EXCEPT ![caller] = IdleCall]
  /\ otpResults' = [otpResults EXCEPT !.docs = Append(@, [failures |-> 0, successes |-> 0])]
  /\ UNCHANGED <<clientMemory, appSettings, reachable, backend, history, others,
                 responses, lastProbe, parked, lastManual>>

\* verifyOTP is called: the first findOne
VerifyOTP(caller, phoneNumber, otpCode) ==
  /\ otpCalls[caller].pc = "idle"
  /\ VerifiesBegun < MaxVerifies
  /\ otpCalls' = [otpCalls EXCEPT ![caller] =
                    [IdleCall EXCEPT
                       !.pc = IF FindUnusedOtp(otpDB, phoneNumber, otpCode) # 0
                              THEN "markAsUsed" ELSE "findAny",
                       !.phoneNumber = phoneNumber,
                       !.otpCode = otpCode,
                       !.doc = FindUnusedOtp(otpDB, phoneNumber, otpCode),
                       !.current = CurrentOtp(otpDB, phoneNumber),
                       !.began = IF FindUnusedOtp(otpDB, phoneNumber, otpCode) # 0
                                 THEN otpResults.docs[FindUnusedOtp(otpDB, phoneNumber,
                                                                    otpCode)].failures
                                 ELSE 0]]
  /\ UNCHANGED <<otpDB, otpResults>>
  /\ UNCHANGED <<clientMemory, appSettings, reachable, backend, history, others,
                 responses, lastProbe, parked, lastManual>>

\* verifyOTP, no unused document: the second findOne
VerifyFindAny(caller) ==
  /\ otpCalls[caller].pc = "findAny"
  /\ LET anyOtp == FindAnyOtp(otpDB, otpCalls[caller].phoneNumber, otpCalls[caller].otpCode)
     IN IF anyOtp = 0
        THEN VerifyReturns(caller, 0, FALSE)
        ELSE /\ otpCalls' = [otpCalls EXCEPT ![caller].pc = "incrementAttempts",
                                             ![caller].doc = anyOtp,
                                             ![caller].attempts = otpDB[anyOtp].attempts]
             /\ UNCHANGED otpResults
  /\ UNCHANGED otpDB
  /\ UNCHANGED <<clientMemory, appSettings, reachable, backend, history, others,
                 responses, lastProbe, parked, lastManual>>

\* verifyOTP: `await anyOtp.incrementAttempts()`: this.attempts += 1 on the
\* document read before, then save(), which throws a ValidationError above the
\* schema's max; either way the call returns success: false
VerifyIncrementAttempts(caller) ==
  /\ otpCalls[caller].pc = "incrementAttempts"
  /\ otpDB' = IF otpCalls[caller].attempts + 1 > MaxAttempts
              THEN otpDB
              ELSE [otpDB EXCEPT ![otpCalls[caller].doc].attempts =
                                   otpCalls[caller].attempts + 1]
  /\ VerifyReturns(caller, otpCalls[caller].doc, FALSE)
  /\ UNCHANGED <<clientMemory, appSettings, reachable, backend, history, others,
                 responses, lastProbe, parked, lastManual>>

\* verifyOTP: `await otpDoc.markAsUsed()`, return success: true
VerifyMarkAsUsed(caller) ==
  /\ otpCalls[caller].pc = "markAsUsed"
  /\ otpDB' = [otpDB EXCEPT ![otpCalls[caller].doc].isUsed = TRUE]
  /\ VerifyReturns(caller, otpCalls[caller].doc, TRUE)
  /\ UNCHANGED <<clientMemory, appSettings, reachable, backend, history, others,
                 responses, lastProbe, parked, lastManual>>

\* ten minutes after it was issued a code is past its expiresAt
ExpireOTP(n) ==
  /\ n \in 1..Len(otpDB)
  /\ ~otpDB[n].expired
  /\ otpDB' = [otpDB EXCEPT ![n].expired = TRUE]
  /\ UNCHANGED <<otpCalls, otpResults>>
  /\ UNCHANGED <<clientMemory, appSettings, reachable, backend, history, others,
                 responses, lastProbe, parked, lastManual>>

\* The one-time codes of the backend alone: requests issue and verify codes
\* at the same time, and codes expire.
NextOtp ==
  \/ \E caller \in Callers, phoneNumber \in PhoneNumbers :
       GenerateAndSendOTP(caller, phoneNumber)
  \/ \E caller \in Callers, otpCode \in OtpCodes : GenerateSave(caller, otpCode)
  \/ \E caller \in Callers, phoneNumber \in PhoneNumbers, otpCode \in SubmittedCodes :
       VerifyOTP(caller, phoneNumber, otpCode)
  \/ \E caller \in Callers : VerifyFindAny(caller)
  \/ \E caller \in Callers : VerifyIncrementAttempts(caller)
  \/ \E caller \in Callers : VerifyMarkAsUsed(caller)
  \/ \E n \in 1..MaxOtps : ExpireOTP(n)

SpecOtp == Init /\ [][NextOtp]_vars

\* The manual login and logout buttons alone, with a location fix that can
\* fail.
NextManual ==
  \/ \E type \in {"login", "logout"}, lat \in ManualLatitudes : ManualLog(type, lat)
  \/ \E type \in {"login", "logout"} : ManualLogNoLocation(type)
  \/ LogAttendanceReturn
  \/ StoreGetSettingsReturn
  \/ StoreSetSettingsReturn
  \/ NetworkChange
  \/ \E regionId \in RegionIds : DeleteRegion(regionId)

SpecManual == Init /\ [][NextManual]_vars

\* A handler that has been called runs on: the I/O it awaits settles.  Nothing in
\* the repository calls retryFailedRequests, and samples, user actions and
\* connectivity are the environment's: none of them is fair.
Continue ==
  \/ LogAttendanceReturn
  \/ StoreGetSettingsReturn
  \/ StoreSetSettingsReturn
  \/ RetryGetSettingsReturn
  \/ RetryPostReturn
  \/ RetrySetSettingsReturn

LiveSpec == Spec /\ WF_vars(Continue)

\* ------------------------------------------------------------ properties
\* the geofence events generated so far for zone z, in generation order
EventsFor(z) == SelectSeq(emitted, LAMBDA e : Get(e, "regionId") = z)

CountType(s, type) == Cardinality({n \in 1..Len(s) : s[n].type = type})

\* whether the sample of the recorded call lies inside zone z of the call's registry
ContainsSample(chk, z) ==
  \E n \in 1..Len(chk.registry) :
    /\ chk.registry[n].regionId = z
    /\ IsInsideClient(chk.location, chk.registry[n])

\* the events the recorded call generated for zone z
CheckEventsFor(chk, z) == SelectSeq(chk.events, LAMBDA e : e.regionId = z)

EnterOf(z) == [type |-> "geofence_enter", regionId |-> z]
ExitOf(z) == [type |-> "geofence_exit", regionId |-> z]

\* C1: against a fixed registry the events of one zone strictly alternate (no
\* two consecutive enters, no two consecutive exits), so the numbers of enter
\* and exit events of the zone differ by at most 1.
C1_Alternation ==
  \A z \in RegionIds :
    LET s == EventsFor(z)
    IN /\ \A n \in 1..(Len(s) - 1) : s[n].type # s[n + 1].type
       /\ Abs(CountType(s, "geofence_enter") - CountType(s, "geofence_exit")) <= 1

\* an enter followed by an exit of the same zone has been generated
C1_Witness ==
  \E z \in RegionIds :
    /\ Len(EventsFor(z)) = 2
    /\ EventsFor(z)[1].type = "geofence_enter"
    /\ EventsFor(z)[2].type = "geofence_exit"

\* C2: a finished checkGeofenceEvents call has generated, for every zone of the
\* registry, exactly one event if the sample's containment differs from the
\* stored state (enter when now inside, exit when now outside) and none
\* otherwise, and lastKnownRegions is the set of registry zones containing the
\* sample.
C2_OneEventPerChange ==
  lastCheck.done =>
    /\ \A z \in RegionIds :
         FindRegion(lastCheck.registry, z) # 0 =>
           LET inside == ContainsSample(lastCheck, z)
               was == z \in lastCheck.before
           IN CheckEventsFor(lastCheck, z) =
                IF inside = was THEN <<>>
                ELSE IF inside THEN <<EnterOf(z)>> ELSE <<ExitOf(z)>>
    /\ Range(lastKnownRegions) = {z \in RegionIds : ContainsSample(lastCheck, z)}

\* a call has finished that generated an event for each of two zones
C2_Witness ==
  /\ lastCheck.done
  /\ Len(lastCheck.events) = 2
  /\ lastCheck.events[1].regionId # lastCheck.events[2].regionId

\* C3: when the stored state of zone z is INSIDE and the registry of the call
\* omits z, the call generates a geofence_exit for z exactly once (and later
\* calls, which start with z no longer stored, generate none).
C3_ExitForRemovedZone ==
  \A z \in RegionIds :
    (lastCheck.done /\ z \in lastCheck.before /\ FindRegion(lastCheck.registry, z) = 0)
      => CheckEventsFor(lastCheck, z) = <<ExitOf(z)>>

\* C4 as claimed: the first sample of a fresh detector only seeds the state: for
\* a zone containing it no geofence_enter is generated and the zone is stored.
C4_FirstSampleSeeds ==
  \A z \in RegionIds :
    (lastCheck.done /\ lastCheck.first /\ ContainsSample(lastCheck, z))
      => /\ CheckEventsFor(lastCheck, z) = <<>>
         /\ z \in Range(lastKnownRegions)

\* C4 amended: the first sample of a fresh detector is classified against the
\* all-OUTSIDE state of the constructor: for a zone containing it exactly one
\* geofence_enter is generated and the zone is stored as INSIDE.
C4_FirstSampleEnters ==
  \A z \in RegionIds :
    (lastCheck.done /\ lastCheck.first /\ ContainsSample(lastCheck, z))
      => /\ CheckEventsFor(lastCheck, z) = <<EnterOf(z)>>
         /\ z \in Range(lastKnownRegions)

\* the first call of a fresh detector has finished with its sample inside a zone
C4_Witness ==
  /\ lastCheck.done
  /\ lastCheck.first
  /\ \E z \in RegionIds : ContainsSample(lastCheck, z)

\* the persisted failedAttendanceRequests list as getSettings reads it back
Outbox == FailedRequestsOf(getSettings(appSettings, FALSE))

OutboxTimestamps == {Outbox[n].timestamp : n \in 1..Len(Outbox)}

InOutbox(t) == t \in OutboxTimestamps

\* the events the backend has persisted a record of
Accepted == {attendanceLogs[n].timestamp : n \in 1..Len(attendanceLogs)}

\* C5: of two events generated in this order for one zone, the backend never
\* receives the later one before the earlier one is accepted or dead-lettered
\* (an event answered with 400 or 403 counts as dead-lettered here).
C5_PerZoneOrder ==
  \A n \in 1..Len(emitted), m \in 1..Len(emitted) :
    (/\ n < m
     /\ Get(emitted[n], "regionId") # Undefined
     /\ Get(emitted[n], "regionId") = Get(emitted[m], "regionId")
     /\ m \in received)
      => n \in Accepted \cup rejected

\* C6: an entry of the persisted outbox is eventually removed from it, unless
\* the backend becomes unreachable again; no sample or user action is needed.
C6_EventualDelivery ==
  \A t \in 1..MaxEvents : [](InOutbox(t) => <>(~InOutbox(t) \/ ~reachable))

\* C7: the persisted list read back, also after a restart, holds the entries of
\* the storeFailedRequest calls made so far, each once, in the order of the
\* calls, each with the fields of the event it was called with.
C7_OutboxDurable ==
  /\ Len(Outbox) = Len(stored)
  /\ \A n \in 1..Len(stored) :
       /\ Outbox[n].timestamp = stored[n]
       /\ \A key \in DOMAIN emitted[stored[n]] :
            Has(Outbox[n], key) /\ Outbox[n][key] = emitted[stored[n]][key]

\* two geofence events were stored and the process restarted after them: the
\* fresh detector has processed no sample yet
C7_Witness ==
  /\ restarts > 0
  /\ ~lastCheck.started
  /\ task.pc = "idle"
  /\ Len(stored) = 2
  /\ \A n \in 1..Len(emitted) : Has(emitted[n], "regionId")

\* C8: an event is in durable storage before its submission is attempted, so at
\* every moment each generated event is in the persisted outbox or has a record
\* at the backend.
C8_StoredBeforeSubmit ==
  /\ task.pc = "post" => InOutbox(task.data.timestamp)
  /\ \A t \in 1..Len(emitted) : InOutbox(t) \/ t \in Accepted

\* C9: an event the backend has answered with a terminal error (400, 403) is
\* not submitted again by a retry run.
C9_NoRetryAfterRejection ==
  ~(task.pc = "retryPost" /\ task.data.timestamp \in rejected)

\* C10: the backend holds at most one AttendanceLog record per event.
C10_NoDuplicateLogs ==
  \A n \in 1..Len(attendanceLogs), m \in 1..Len(attendanceLogs) :
    attendanceLogs[n].timestamp = attendanceLogs[m].timestamp => n = m

\* ------------------------------------------------- zone policy at the backend
\* the last request of an API client is a geofence event that names a zone
GeofencePost ==
  /\ lastPost.posted
  /\ lastPost.body.type \in GeofenceTypes
  /\ Has(lastPost.body, "regionId")
  /\ lastPost.body.regionId # ""

\* the active documents of the zone it names, as they were when it was handled
ActiveDocs == {doc \in lastPost.docs : doc.isActive}

\* whether the claimed coordinates lie within the document's radius of its center
ClaimedInside(doc) ==
  calculateDistance(doc.center.latitude, doc.center.longitude,
                    lastPost.body.location.latitude, lastPost.body.location.longitude)
    <= doc.radius * 100

Listed(doc) == doc.allowedUsers = {} \/ lastPost.userId \in doc.allowedUsers

Refused == lastPost.status \in 400..499 /\ ~lastPost.saved

\* whether time t (hours since Monday 00:00) lies in the document's working hours
\* on one of its working days
WithinWorkingHours(doc, t) ==
  /\ ((t \div 24) % 7) + 1 \in doc.workingDays
  /\ t % 24 >= doc.workingHours.start
  /\ t % 24 < doc.workingHours.end

\* C11: a geofence submission naming a zone that does not exist or is inactive
\* is answered with a 4xx status and no AttendanceLog is saved for it.
C11_UnknownZoneRefused ==
  (GeofencePost /\ ActiveDocs = {}) => Refused

\* a geofence submission naming a deactivated zone has been answered
C11_Witness ==
  /\ GeofencePost
  /\ lastPost.docs # {}
  /\ ActiveDocs = {}

\* C12: a geofence submission for an active zone whose allow-list is non-empty
\* and lacks the submitting user is refused and not saved, inside or outside
\* the zone; with an empty allow-list no submission is answered 403.
C12_MembershipEnforced ==
  GeofencePost =>
    \A doc \in ActiveDocs :
      /\ (doc.allowedUsers # {} /\ lastPost.userId \notin doc.allowedUsers) => Refused
      /\ doc.allowedUsers = {} => lastPost.status # 403

\* a user missing from the allow-list has submitted an event with coordinates
\* inside the zone
C12_Witness ==
  /\ GeofencePost
  /\ \E doc \in ActiveDocs : ~Listed(doc) /\ ClaimedInside(doc)

\* C13: a geofence_enter submission whose claimed coordinates lie outside the
\* radius of the active zone it names is refused and not saved, so every saved
\* geofence_enter naming a zone lay inside it when it was handled.
C13_NoEnterOutside ==
  (GeofencePost /\ lastPost.body.type = "geofence_enter") =>
    /\ (\A doc \in ActiveDocs : ~ClaimedInside(doc)) => Refused
    /\ lastPost.saved => \E doc \in ActiveDocs : ClaimedInside(doc)

\* an allowed user has submitted a geofence_enter with coordinates outside the
\* active zone it names
C13_Witness ==
  /\ GeofencePost
  /\ lastPost.body.type = "geofence_enter"
  /\ \E doc \in ActiveDocs : Listed(doc) /\ ~ClaimedInside(doc)

\* C14: a geofence_exit submission for an active zone from an allowed user is
\* answered 201 and saved, with claimed coordinates inside or outside the zone.
C14_ExitAccepted ==
  (GeofencePost /\ lastPost.body.type = "geofence_exit"
     /\ \E doc \in ActiveDocs : Listed(doc))
    => lastPost.status = 201 /\ lastPost.saved

\* an allowed user has submitted a geofence_exit with coordinates outside the zone
C14_Witness ==
  /\ GeofencePost
  /\ lastPost.body.type = "geofence_exit"
  /\ \E doc \in ActiveDocs : Listed(doc) /\ ~ClaimedInside(doc)

\* C15: a geofence event is saved only if its time lies in the working hours of
\* the zone it names, on one of the zone's working days.
C15_WorkingHoursEnforced ==
  (GeofencePost /\ lastPost.saved) =>
    \A doc \in ActiveDocs : WithinWorkingHours(doc, lastPost.body.timestamp)

\* ------------------------------------------------------ registry refresh
\* C16: a loadGeofenceRegions call that fails leaves geofenceRegions as it was
\* before the call.
C16_FailedLoadKeepsSnapshot ==
  [][(LoadGeofenceRegions /\ ~reachable) => geofenceRegions' = geofenceRegions]_vars

\* C17: one checkGeofenceEvents call uses one registry snapshot: every
\* this.geofenceRegions.find(...) of its exit pass reads the array its
\* containment pass iterates.
C17_OneSnapshotPerCall ==
  lastCheck.lookups \subseteq {lastCheck.registry}

C19_StopKeepsOutbox ==
  [][(\E platformFails \in BOOLEAN : StopTracking(platformFails)) => Outbox' = Outbox]_vars

\* stopTracking has run with entries in the outbox and its platform call threw
C19_Witness ==
  /\ lastStop.called
  /\ Len(lastStop.before) > 0
  /\ watchId = Null
  /\ isTracking

\* C18: once every storeFailedRequest and retryFailedRequests call has
\* finished, each stored event the backend holds no record of is in the
\* persisted list exactly once.
C18_NoLostOrDuplicateEntry ==
  (task.pc = "idle" /\ worker.pc = "idle") =>
    \A n \in 1..Len(stored) :
      stored[n] \notin Accepted =>
        Cardinality({m \in 1..Len(Outbox) : Outbox[m].timestamp = stored[n]}) = 1

\* ------------------------------------------------------ malformed samples
\* C21: no entry of the persisted outbox carries a latitude outside [-90, 90].
C21_MalformedNeverStored ==
  \A n \in 1..Len(Outbox) : ValidLatitude(Outbox[n].location.latitude)

\* ------------------------------------------------------ zone ingestion
\* the last create or update request carried a radius outside 1..10000
RadiusOutOfRange ==
  /\ lastAdmin.method \in {"POST", "PUT"}
  /\ Has(lastAdmin.body, "radius")
  /\ (lastAdmin.body.radius < MinRadius \/ lastAdmin.body.radius > MaxRadius)

\* C22: every stored zone has a radius between 1 and 10000, and a create or
\* update request carrying a radius outside that range is answered with an
\* error status and leaves the stored zones as they were.
C22_RadiusInRange ==
  /\ \A n \in 1..Len(regionDB) :
       regionDB[n].radius >= MinRadius /\ regionDB[n].radius <= MaxRadius
  /\ RadiusOutOfRange => (lastAdmin.status >= 400 /\ ~lastAdmin.changed)

\* an update asking for radius 10001 has been answered for an active zone, after
\* a zone was given radius 10000 and another radius 1
C22_Witness ==
  /\ lastAdmin.method = "PUT"
  /\ RadiusOutOfRange
  /\ FindActiveRegion(regionDB, lastAdmin.regionId) # 0
  /\ \E n \in 1..Len(regionDB) : regionDB[n].radius = MaxRadius
  /\ \E n \in 1..Len(regionDB) : regionDB[n].radius = MinRadius

\* ------------------------------------------------------ persisted records
\* C23: in every AttendanceLog record the zone id is non-null exactly when the
\* type is geofence_enter or geofence_exit.
C23_ZoneIdIffGeofence ==
  \A n \in 1..Len(attendanceLogs) :
    (attendanceLogs[n].regionId # Null) <=> (attendanceLogs[n].type \in GeofenceTypes)

\* ------------------------------------------------------ retry runs
\* whether the submission of event t in retry run `run` returned to the client
OkInRun(t, run) == \E r \in responses : r.timestamp = t /\ r.run = run /\ r.ok

FailedInRun(t, run) == \E r \in responses : r.timestamp = t /\ r.run = run /\ ~r.ok

\* C24: the write-back of a retryFailedRequests run leaves in the persisted list
\* exactly the entries whose submission did not succeed during the run, in their
\* original order; the entries removed are the ones whose submission succeeded.
C24_RetryRemovesSucceeded ==
  [][RetrySetSettingsReturn =>
       Outbox' = SelectSeq(Outbox, LAMBDA e : ~OkInRun(e.timestamp, retries))]_vars

\* a run has finished in which one entry was submitted successfully and removed
\* and another failed and was kept
C24_Witness ==
  /\ task.pc = "idle"
  /\ restarts = 0
  /\ retries > 0
  /\ \E t1 \in 1..MaxEvents, t2 \in 1..MaxEvents :
       /\ OkInRun(t1, retries)
       /\ FailedInRun(t2, retries)
       /\ ~InOutbox(t1)
       /\ OutboxTimestamps = {t2}

\* whether storeFailedRequest is still running for event t
BeingStored(t) ==
  \/ task.pc \in {"getSettings", "setSettings"} /\ task.data.timestamp = t
  \/ parked.task.pc \in {"getSettings", "setSettings"} /\ parked.task.data.timestamp = t

\* whether a retry run has submitted event t successfully
RetriedOk(t) == \E r \in responses : r.timestamp = t /\ r.run > 0 /\ r.ok

\* C25: an event whose submission by logAttendance failed without an answer of
\* the backend (timeout, network error) is in the persisted outbox once
\* storeFailedRequest has finished for it, and stays there until a retry run
\* has submitted it successfully.
C25_RetryableKept ==
  \A t \in 1..Len(emitted) :
    (FailedInRun(t, 0) /\ t \notin rejected /\ ~BeingStored(t) /\ restarts = 0)
      => (InOutbox(t) \/ RetriedOk(t))

\* the attempt count an entry of the persisted list carries: the entries are
\* written with the fields of the event and failedAt, so a list without the
\* field counts as 0
AttemptCount(entry) == IF Has(entry, "attemptCount") THEN entry.attemptCount ELSE 0

\* C26: the write-back of a retry run leaves every entry it keeps (its
\* submission failed) with an attempt count one higher than before the run.
C26_FailedAttemptCounted ==
  [][RetrySetSettingsReturn =>
       \A n \in 1..Len(Outbox') :
         \E m \in 1..Len(Outbox) :
           /\ Outbox[m].timestamp = Outbox'[n].timestamp
           /\ AttemptCount(Outbox'[n]) = AttemptCount(Outbox[m]) + 1]_vars

\* ------------------------------------------------ overlapping invocations
\* the records of the two invocations: the one in task and the parked one
Invocations == {lastCheck, parked.check}

\* C27: one checkGeofenceEvents call generates at most one event per zone id:
\* never an enter and an exit for the same zone, never the same event twice.
C27_OneEventPerZone ==
  \A chk \in Invocations : \A z \in RegionIds : Len(CheckEventsFor(chk, z)) <= 1

\* two overlapping calls have finished and each has generated a geofence_enter
\* for the same zone, so the later one to finish ran its exit loop over a Set
\* holding the zone it had just entered
C27_Witness ==
  /\ lastCheck.done
  /\ parked.check.done
  /\ \E z \in RegionIds :
       /\ CheckEventsFor(lastCheck, z) = <<EnterOf(z)>>
       /\ CheckEventsFor(parked.check, z) = <<EnterOf(z)>>

\* C29: also when handleLocationUpdate invocations overlap, no zone gets two
\* geofence_enter or two geofence_exit events in a row.
C29_AlternationUnderOverlap ==
  \A z \in RegionIds :
    \A n \in 1..(Len(EventsFor(z)) - 1) : EventsFor(z)[n].type # EventsFor(z)[n + 1].type

\* C30: once every invocation has finished, lastKnownRegions is the set of
\* registry zones containing the most recently received sample.
C30_NewestSampleWins ==
  (task.pc = "idle" /\ parked.task.pc = "idle") =>
    \A chk \in Invocations :
      (chk.newest /\ chk.done) =>
        Range(lastKnownRegions) = {z \in RegionIds : ContainsSample(chk, z)}

C31_SingleSubscription == liveWatches <= 1

\* C32: isTracking is true only while a watch subscription is held in watchId.
C32_TrackingHoldsWatch == isTracking => watchId # Null

\* ------------------------------------------------------ retried payloads
PayloadKeys == {"type", "location", "regionId", "timestamp", "deviceInfo"}

\* whether two payloads carry the same value, or both none, under every key
SamePayload(first, again) ==
  \A key \in PayloadKeys :
    /\ Has(first, key) = Has(again, key)
    /\ Has(first, key) => first[key] = again[key]

\* C33: the payload a retry run submits for an event carries the same type,
\* location, regionId, timestamp and deviceInfo as the payload logAttendance
\* submitted for it.
C33_SamePayloadOnRetry ==
  \A first \in responses, again \in responses :
    (first.run = 0 /\ again.run > 0 /\ first.timestamp = again.timestamp)
      => SamePayload(first.body, again.body)

\* C34: a storage read or write failure during storeFailedRequest or
\* retryFailedRequests never discards entries that were already persisted: every
\* entry in the outbox before a storage step of a call in which a storage
\* operation threw is still in the outbox after it.
StorageStepAfterFailure ==
  \E throws \in BOOLEAN :
    /\ throws \/ task.threw
    /\ \/ StoreGetSettings(throws)
       \/ StoreSetSettings(throws)
       \/ RetryGetSettings(throws)
       \/ RetrySetSettings(throws)

C34_StorageFailureKeepsEntries ==
  [][StorageStepAfterFailure
       => \A n \in 1..Len(Outbox) : Outbox[n] \in Range(Outbox')]_vars

\* C35: a deactivated zone stays deactivated whatever create, update, delete
\* or allowed-users request follows: it is never active again, no other
\* document takes its regionId, GET /regions does not list it, and every
\* geofence submission naming it is answered 400.
Deactivated(db) == {db[n].regionId : n \in {m \in 1..Len(db) : ~db[m].isActive}}

DeactivatedIsGone(db, regionId) ==
  /\ FindActiveRegion(db, regionId) = 0
  /\ Cardinality({n \in 1..Len(db) : db[n].regionId = regionId}) = 1
  /\ \A n \in 1..Len(GetRegions(db)) : GetRegions(db)[n].regionId # regionId
  /\ \A type \in GeofenceTypes, lat \in Latitudes, userId \in Users :
       LogStatus([type |-> type, location |-> [latitude |-> lat, longitude |-> 0],
                  regionId |-> regionId, timestamp |-> 0], userId, db) = 400

C35_DeactivationPermanent ==
  /\ [](\A regionId \in Deactivated(regionDB) : DeactivatedIsGone(regionDB, regionId))
  /\ [][Deactivated(regionDB) \subseteq Deactivated(regionDB')]_vars

C35_Witness ==
  /\ "A" \in Deactivated(regionDB)
  /\ lastAdmin.method = "PUT"
  /\ lastAdmin.regionId = "B"
  /\ Has(lastAdmin.body, "regionId")
  /\ lastAdmin.body.regionId = "A"
  /\ lastAdmin.status = 500

\* C36: manualLogin / manualLogout make an event only once the location is
\* there.  A call that ends throwing has submitted and stored nothing; a call
\* whose event was made always ends returning true, and when its submission
\* failed the event is in the outbox at that moment.
ManualEnds == lastManual' # lastManual

ManualThrowsCleanly ==
  (ManualEnds /\ lastManual'.outcome = "throws")
    => /\ emitted' = emitted
       /\ responses' = responses
       /\ appSettings' = appSettings
       /\ attendanceLogs' = attendanceLogs

ManualFailureIsStored ==
  (task.kind = "manual" /\ task'.kind # "manual")
    => /\ lastManual' = [called |-> TRUE, timestamp |-> task.data.timestamp,
                         outcome |-> "true"]
       /\ FailedInRun(task.data.timestamp, 0)
            => \E n \in 1..Len(Outbox') :
                 /\ Outbox'[n].timestamp = task.data.timestamp
                 /\ Outbox'[n].type = task.data.type
                 /\ Outbox'[n].location = task.data.location

C36_ManualAfterLocation == [][ManualThrowsCleanly /\ ManualFailureIsStored]_vars

C36_Witness ==
  /\ lastManual.outcome = "true"
  /\ FailedInRun(lastManual.timestamp, 0)
  /\ lastManual.timestamp \in OutboxTimestamps
  /\ task.pc = "idle"

\* C37: an OTP is single-use: whatever the interleaving of verifyOTP
\* calls, no OTP document is the subject of two successful verifications.
C37_SingleUse == \A doc \in 1..Len(otpResults.docs) : otpResults.docs[doc].successes <= 1

\* C38: once three verifyOTP calls have failed against the current OTP of a
\* phone number, no verifyOTP call that begins afterwards succeeds for that
\* OTP.
C38_ThreeFailuresLock ==
  [][\A caller \in Callers :
       VerifyMarkAsUsed(caller) => otpCalls[caller].began < MaxAttempts]_vars

\* C39: at most one OTP document of a phone number has isUsed = false.
Unused(phoneNumber) ==
  {n \in 1..Len(otpDB) : otpDB[n].phoneNumber = phoneNumber /\ ~otpDB[n].isUsed}

C39_OneUnusedOtp == \A phoneNumber \in PhoneNumbers : Cardinality(Unused(phoneNumber)) <= 1

====
